---- MODULE Spec2Model ----
(***************************************************************************)
(* Model of streamlit_app.py: one interaction pass of the COVID dashboard  *)
(* script (load, validate, sidebar filters, filter, charts, map, export).  *)
(* Streamlit re-executes the script top to bottom on every interaction;    *)
(* each action below is one block of the script, in script order.          *)
(*                                                                         *)
(* Values.  A CSV cell is a string.  A parsed date (pandas Timestamp) is   *)
(* a day ordinal, NaT is 0.  A datetime.date is a record [year,month,day]. *)
(* A parsed number is a natural, NaN is -1.  A missing location is "NaN".  *)
(***************************************************************************)
EXTENDS Integers, Sequences, FiniteSets

\* ---------------------------------------------------------------- bounds
MaxRows == 2

\* ------------------------------------------------------- value domains
NaT == 0
NaN == -1
NoLoc == "NaN"
NaTDate == [year |-> 0, month |-> 0, day |-> 0]

DateCells == {"2021-01-01", "2021-01-02", "n/a"}
LocCells == {"A", "B", ""}
DeathCells == {"", "5"}
VaxCells == {"", "10"}

RawRows == [date : DateCells, location : LocCells,
            new_deaths_smoothed : DeathCells,
            people_vaccinated_per_hundred : VaxCells]

RECURSIVE SeqsUpTo(_, _)
SeqsUpTo(S, n) ==
    IF n = 0 THEN {<<>>}
    ELSE LET shorter == SeqsUpTo(S, n - 1)
         IN shorter \cup {Append(s, x) : s \in {t \in shorter : Len(t) = n - 1}, x \in S}

\* the four columns the script works with (usecols / expected)
usecols == {"date", "location", "new_deaths_smoothed", "people_vaccinated_per_hundred"}
expected == {"date", "location", "new_deaths_smoothed", "people_vaccinated_per_hundred"}

\* headers a CSV source may have
Headers == {usecols, usecols \cup {"iso_code"}, usecols \ {"location"}, usecols \ {"date"}}

\* a CSV row under header h: the cells of a raw row for the columns of h
WithHeader(r, h) == [c \in h |-> IF c \in DOMAIN r THEN r[c] ELSE "x"]

\* what load_data may be pointed at: the uploaded file or (None) the URL
Sources ==
    {[uploaded |-> u, status |-> st, columns |-> {}, rows |-> <<>>] :
        u \in BOOLEAN, st \in {"unreachable", "malformed"}}
    \cup
    {[uploaded |-> u, status |-> "ok", columns |-> h,
      rows |-> [i \in DOMAIN rs |-> WithHeader(rs[i], h)]] :
        u \in BOOLEAN, h \in Headers, rs \in SeqsUpTo(RawRows, MaxRows)}

\* ----------------------------------------------------------- conversions
\* pd.to_datetime(cell, errors='coerce') on one cell
ParseDate(cell) ==
    CASE cell = "2021-01-01" -> 1
      [] cell = "2021-01-02" -> 2
      [] OTHER -> NaT

\* read_csv's numeric inference on one cell
ParseNum(cell) ==
    CASE cell = "5" -> 5
      [] cell = "10" -> 10
      [] OTHER -> NaN

\* read_csv's treatment of a text cell: empty is NaN
ParseText(cell) == IF cell = "" THEN NoLoc ELSE cell

ParseCell(c, cell) ==
    IF c \in {"new_deaths_smoothed", "people_vaccinated_per_hundred"} THEN ParseNum(cell)
    ELSE IF c = "location" THEN ParseText(cell)
    ELSE cell

\* Timestamp.date() ; NaT.date() is NaT
DateOf(ts) == IF ts = NaT THEN NaTDate ELSE [year |-> 2021, month |-> 1, day |-> ts]

\* pd.to_datetime(datetime.date)
ToTimestamp(d) == IF d = NaTDate THEN NaT ELSE d.day

\* pd.to_datetime(x): a date gives a Timestamp, a tuple gives a DatetimeIndex
Scalar(d) == [kind |-> "Timestamp", v |-> <<ToTimestamp(d)>>]
Index(ds) == [kind |-> "DatetimeIndex", v |-> [i \in DOMAIN ds |-> ToTimestamp(ds[i])]]

\* ---------------------------------------------------------------- loader
\* ReadCsv without the usecols projection: every column of the file is read
ReadCsvAllColumns(src, cols) ==
    IF src.status # "ok"
    THEN [raised |-> TRUE, columns |-> {}, rows |-> <<>>]
    ELSE [raised |-> FALSE, columns |-> src.columns,
          rows |-> [i \in DOMAIN src.rows |->
                      [c \in src.columns \cup {"idx"} |->
                          IF c = "idx" THEN i ELSE ParseCell(c, src.rows[i][c])]]]

\* pd.read_csv(source, usecols=cols)
ReadCsv(src, cols) ==
    IF src.status # "ok" \/ ~(cols \subseteq src.columns)
    THEN [raised |-> TRUE, columns |-> {}, rows |-> <<>>]
    ELSE [raised |-> FALSE, columns |-> cols,
          rows |-> [i \in DOMAIN src.rows |->
                      [c \in cols \cup {"idx"} |->
                          IF c = "idx" THEN i ELSE ParseCell(c, src.rows[i][c])]]]

\* df['date'] = pd.to_datetime(df['date'], errors='coerce')
CoerceDates(rows) ==
    [i \in DOMAIN rows |-> [rows[i] EXCEPT !.date = ParseDate(rows[i].date)]]

\* load_data(uploaded_file)
load_data(src) ==
    LET r == ReadCsv(src, usecols)
    IN IF r.raised \/ "date" \notin r.columns
       THEN [raised |-> TRUE, columns |-> {}, rows |-> <<>>]
       ELSE [raised |-> FALSE, columns |-> r.columns, rows |-> CoerceDates(r.rows)]

\* ------------------------------------------------------- sidebar helpers
\* sorted(df['location'].dropna().unique())
all_countries(rows) == {rows[i].location : i \in DOMAIN rows} \ {NoLoc}

ParsedDates(rows) == {rows[i].date : i \in DOMAIN rows} \ {NaT}

\* df['date'].min() / .max(): NaT values are skipped, NaT when nothing is left
SeriesMin(rows) ==
    IF ParsedDates(rows) = {} THEN NaT
    ELSE CHOOSE t \in ParsedDates(rows) : \A u \in ParsedDates(rows) : t <= u
SeriesMax(rows) ==
    IF ParsedDates(rows) = {} THEN NaT
    ELSE CHOOSE t \in ParsedDates(rows) : \A u \in ParsedDates(rows) : t >= u

\* values st.date_input can hand back for a range-valued widget bounded by
\* [lo, hi]: a tuple of 0, 1 or 2 dates (a pair is ordered)
DateInputValues(lo, hi) ==
    LET days == {DateOf(t) : t \in lo..hi}
    IN {<<>>} \cup {<<d>> : d \in days}
       \cup {p \in days \X days : p[1].day <= p[2].day}

\* lines 47-50: isinstance(date_range, (tuple, list)) and len(date_range) == 2
StartOf(dr) == IF Len(dr) = 2 THEN Scalar(dr[1]) ELSE Index(dr)
EndOf(dr) == IF Len(dr) = 2 THEN Scalar(dr[2]) ELSE Index(dr)

\* ---------------------------------------------------------------- filter
\* Series compared with a DatetimeIndex of another length raises ValueError
CmpRaises(rows, bound) == bound.kind = "DatetimeIndex" /\ Len(bound.v) # Len(rows)

BoundAt(bound, i) == IF bound.kind = "Timestamp" THEN bound.v[1] ELSE bound.v[i]

\* datetime comparison: anything compared with NaT is False
Ge(a, b) == a # NaT /\ b # NaT /\ a >= b
\* Le with the upper bound excluded
LeStrict(a, b) == a # NaT /\ b # NaT /\ a < b
Le(a, b) == a # NaT /\ b # NaT /\ a <= b
Lt(a, b) == a # NaT /\ b # NaT /\ a < b
Gt(a, b) == a # NaT /\ b # NaT /\ a > b

\* mask written with the negated comparisons: a NaT date passes both
maskNegated(rows, sel, s, e) ==
    [i \in DOMAIN rows |->
        /\ rows[i].location \in sel
        /\ ~Lt(rows[i].date, BoundAt(s, i))
        /\ ~Gt(rows[i].date, BoundAt(e, i))]

\* line 53: isin(selected) & (date >= start) & (date <= end), per row
mask(rows, sel, s, e) ==
    [i \in DOMAIN rows |->
        /\ rows[i].location \in sel
        /\ Ge(rows[i].date, BoundAt(s, i))
        /\ Le(rows[i].date, BoundAt(e, i))]

\* rows of s whose mask entry is True, in order
Keep(s, m) ==
    LET F[i \in 0..Len(s)] ==
            IF i = 0 THEN <<>>
            ELSE IF m[i] THEN Append(F[i - 1], s[i]) ELSE F[i - 1]
    IN F[Len(s)]

\* Loc that hands the masked rows back last row first
LocReversed(rows, m, cols) ==
    LET kept == Keep(rows, m)
    IN [i \in DOMAIN kept |->
           [c \in cols \cup {"idx"} |-> kept[Len(kept) + 1 - i][c]]]

\* df.loc[m, cols]: the masked rows, the listed columns, the index labels kept
Loc(rows, m, cols) ==
    LET kept == Keep(rows, m)
    IN [i \in DOMAIN kept |-> [c \in cols \cup {"idx"} |-> kept[i][c]]]

IsNull(c, v) ==
    CASE c = "date" -> v = NaT
      [] c = "location" -> v = NoLoc
      [] OTHER -> v = NaN

\* AllNull over the two numeric columns only
AllNullValues(r) ==
    r.new_deaths_smoothed = NaN /\ r.people_vaccinated_per_hundred = NaN

\* .dropna(how='all'): a row goes only if every one of its columns is null
AllNull(r) == \A c \in DOMAIN r \ {"idx"} : IsNull(c, r[c])
dropna(rows) == Keep(rows, [i \in DOMAIN rows |-> ~AllNull(rows[i])])

\* empty that never reports an empty frame
emptyNever(d) == FALSE

\* data.empty
empty(d) == Len(d) = 0

\* ----------------------------------------------------------- aggregation
\* GroupValues with the nulls filled with 0 instead of skipped
GroupValuesFillZero(d, loc, col) ==
    LET sel == Keep(d, [i \in DOMAIN d |-> d[i].location = loc])
    IN [i \in DOMAIN sel |-> IF sel[i][col] = NaN THEN 0 ELSE sel[i][col]]

\* the non-null values of column col in the group of location loc
GroupValues(d, loc, col) ==
    LET sel == Keep(d, [i \in DOMAIN d |-> d[i].location = loc /\ d[i][col] # NaN])
    IN [i \in DOMAIN sel |-> sel[i][col]]

RECURSIVE SumSeq(_)
SumSeq(s) == IF s = <<>> THEN 0 ELSE s[1] + SumSeq(Tail(s))

\* GroupBy.sum(): nulls skipped, min_count=0 so an all-null group sums to 0
GroupSum(vals) == SumSeq(vals)

\* GroupBy.mean(): nulls skipped, NaN for an all-null group
\* (the value domains keep the quotient exact)
GroupMean(vals) == IF vals = <<>> THEN NaN ELSE SumSeq(vals) \div Len(vals)

\* GroupBy.max(): nulls skipped, NaN for an all-null group
GroupMax(vals) ==
    IF vals = <<>> THEN NaN
    ELSE LET S == {vals[i] : i \in DOMAIN vals}
         IN CHOOSE x \in S : \A y \in S : x >= y

\* data.groupby("location")[col].<reducer>().reset_index(): one entry per
\* location present in data
Reduce(reducer, vals) ==
    CASE reducer = "sum" -> GroupSum(vals)
      [] reducer = "mean" -> GroupMean(vals)
      [] reducer = "max" -> GroupMax(vals)

GroupBy(d, col, reducer) ==
    {[location |-> loc, value |-> Reduce(reducer, GroupValues(d, loc, col))] :
        loc \in {d[i].location : i \in DOMAIN d} \ {NoLoc}}

\* ---------------------------------------------------------------- export
FormatDate(ts) ==
    CASE ts = 1 -> "2021-01-01"
      [] ts = 2 -> "2021-01-02"
      [] OTHER -> ""
FormatNum(n) ==
    CASE n = 5 -> "5.0"
      [] n = 10 -> "10.0"
      [] OTHER -> ""

\* data.to_csv(index=False)
to_csv(d) ==
    [i \in DOMAIN d |->
        [date |-> FormatDate(d[i].date),
         location |-> IF d[i].location = NoLoc THEN "" ELSE d[i].location,
         new_deaths_smoothed |-> FormatNum(d[i].new_deaths_smoothed),
         people_vaccinated_per_hundred |-> FormatNum(d[i].people_vaccinated_per_hundred)]]

\* ----------------------------------------------------------------- state
VARIABLES pc, exc, df, selected_countries, date_range, start, end, data,
          cumulative, show_map, map_type, map_data, geo, csv, rendered

vars == <<pc, exc, df, selected_countries, date_range, start, end, data,
          cumulative, show_map, map_type, map_data, geo, csv, rendered>>

NoDf == [columns |-> {}, rows |-> <<>>]
NoBound == [kind |-> "none", v |-> <<>>]

Init ==
    /\ pc = "load"
    /\ exc = "none"
    /\ df = NoDf
    /\ selected_countries = {}
    /\ date_range = <<>>
    /\ start = NoBound
    /\ end = NoBound
    /\ data = <<>>
    /\ cumulative = {}
    /\ show_map = FALSE
    /\ map_type = "none"
    /\ map_data = {}
    /\ geo = "none"
    /\ csv = <<>>
    /\ rendered = {}

\* lines 28-29: uploaded = file_uploader(...); df = load_data(uploaded)
Load ==
    /\ pc = "load"
    /\ \E src \in Sources :
         LET r == load_data(src)
         IN IF r.raised
            THEN /\ pc' = "crashed"
                 /\ exc' = "load_data"
                 /\ df' = df
            ELSE /\ pc' = "validate"
                 /\ exc' = exc
                 /\ df' = [columns |-> r.columns, rows |-> r.rows]
    /\ UNCHANGED <<selected_countries, date_range, start, end, data,
                   cumulative, show_map, map_type, map_data, geo, csv, rendered>>

\* lines 32-36: missing = [c for c in expected if c not in df.columns]
Validate ==
    /\ pc = "validate"
    /\ LET missing == expected \ df.columns
       IN IF missing # {}
          THEN /\ rendered' = rendered \cup {"error"}
               /\ pc' = "stopped"
          ELSE /\ rendered' = rendered
               /\ pc' = "sidebar"
    /\ UNCHANGED <<exc, df, selected_countries, date_range, start, end, data,
                   cumulative, show_map, map_type, map_data, geo, csv>>

\* lines 39-50: the multiselect, the date range widget, start and end
\* (the multiselect hands back any subset of its options all_countries)
Sidebar ==
    /\ pc = "sidebar"
    /\ LET min_date == DateOf(SeriesMin(df.rows))
           max_date == DateOf(SeriesMax(df.rows))
       IN \/ /\ min_date # NaTDate
             /\ selected_countries' \in SUBSET all_countries(df.rows)
             /\ date_range' \in DateInputValues(min_date.day, max_date.day)
             /\ start' = StartOf(date_range')
             /\ end' = EndOf(date_range')
             /\ pc' = "filter"
             /\ exc' = exc
          \* no date parsed: min_date and max_date are NaT, and the widget
          \* either rejects them or carries them through
          \/ /\ min_date = NaTDate
             /\ selected_countries' \in SUBSET all_countries(df.rows)
             /\ \/ /\ date_range' \in {<<>>, <<NaTDate>>, <<NaTDate, NaTDate>>}
                   /\ start' = StartOf(date_range')
                   /\ end' = EndOf(date_range')
                   /\ pc' = "filter"
                   /\ exc' = exc
                \/ /\ date_range' = date_range
                   /\ start' = start
                   /\ end' = end
                   /\ pc' = "crashed"
                   /\ exc' = "date_input"
    /\ UNCHANGED <<df, data, cumulative, show_map, map_type, map_data, geo, csv, rendered>>

\* lines 52-58: mask, data, the empty check
Filter ==
    /\ pc = "filter"
    /\ IF CmpRaises(df.rows, start) \/ CmpRaises(df.rows, end)
       THEN /\ pc' = "crashed"
            /\ exc' = "mask"
            /\ data' = data
            /\ rendered' = rendered
       ELSE /\ data' = dropna(Loc(df.rows, mask(df.rows, selected_countries, start, end), expected))
            /\ exc' = exc
            /\ IF empty(data')
               THEN /\ rendered' = rendered \cup {"warning"}
                    /\ pc' = "stopped"
               ELSE /\ rendered' = rendered
                    /\ pc' = "charts"
    /\ UNCHANGED <<df, selected_countries, date_range, start, end,
                   cumulative, show_map, map_type, map_data, geo, csv>>

\* lines 60-177: the table, the Altair charts, cumulative and its bar chart,
\* and behind a checkbox the Seaborn/Matplotlib versions
Charts ==
    /\ pc = "charts"
    /\ cumulative' = GroupBy(data, "new_deaths_smoothed", "sum")
    /\ \E seaborn \in BOOLEAN :
         rendered' = rendered \cup {"table", "line_deaths", "line_vax", "scatter", "bar_chart", "heatmap"}
                              \cup (IF seaborn THEN {"seaborn"} ELSE {})
    /\ pc' = "map"
    /\ UNCHANGED <<exc, df, selected_countries, date_range, start, end, data,
                   show_map, map_type, map_data, geo, csv>>

\* lines 184-242: the map toggle, the aggregation, the GeoJSON fetch, the map
Map ==
    /\ pc = "map"
    /\ \/ /\ show_map' = FALSE
          /\ UNCHANGED <<map_type, map_data, geo, rendered, exc>>
          /\ pc' = "export"
       \/ /\ show_map' = TRUE
          /\ map_type' \in {"Deaths Intensity", "Vaccination Progress"}
          /\ map_data' = IF map_type' = "Deaths Intensity"
                         THEN GroupBy(data, "new_deaths_smoothed", "mean")
                         ELSE GroupBy(data, "people_vaccinated_per_hundred", "max")
          \* requests.get(geo_url).json() either answers or raises
          /\ \/ /\ geo' = "ok"
                /\ rendered' = rendered \cup {"map"}
                /\ exc' = exc
                /\ pc' = "export"
             \/ /\ geo' = "failed"
                /\ rendered' = rendered
                /\ exc' = "requests.get"
                /\ pc' = "crashed"
    /\ UNCHANGED <<df, selected_countries, date_range, start, end, data, cumulative, csv>>

\* lines 245-246: csv = data.to_csv(index=False); download_button
Export ==
    /\ pc = "export"
    /\ csv' = to_csv(data)
    /\ rendered' = rendered \cup {"download_button"}
    /\ pc' = "done"
    /\ UNCHANGED <<exc, df, selected_countries, date_range, start, end, data,
                   cumulative, show_map, map_type, map_data, geo>>

\* the next interaction: Streamlit runs the script again from the top
Rerun ==
    /\ pc \in {"done", "stopped", "crashed"}
    /\ pc' = "load"
    /\ exc' = "none"
    /\ df' = NoDf
    /\ selected_countries' = {}
    /\ date_range' = <<>>
    /\ start' = NoBound
    /\ end' = NoBound
    /\ data' = <<>>
    /\ cumulative' = {}
    /\ show_map' = FALSE
    /\ map_type' = "none"
    /\ map_data' = {}
    /\ geo' = "none"
    /\ csv' = <<>>
    /\ rendered' = {}

Next == Load \/ Validate \/ Sidebar \/ Filter \/ Charts \/ Map \/ Export \/ Rerun

Spec == Init /\ [][Next]_vars

\* ================================================================ claims
\* the pass has computed data (line 54 has run)
Filtered ==
    \/ pc \in {"charts", "map", "export", "done"}
    \/ pc = "stopped" /\ "warning" \in rendered
    \/ pc = "crashed" /\ exc = "requests.get"

\* index labels of the rows in data
KeptIdx == {data[j].idx : j \in DOMAIN data}

\* the outputs that consume data
Views == {"table", "line_deaths", "line_vax", "scatter", "bar_chart", "heatmap",
          "seaborn", "map", "download_button"}

\* date_range is a pair of calendar dates
IsPair == Len(date_range) = 2 /\ date_range[1] # NaTDate /\ date_range[2] # NaTDate

\* C1: with a pair of dates (start, end), data holds exactly the rows of df
\* whose location is selected and whose date d has start <= d <= end, both
\* bounds included, each as it is in df, and no other row.
C1_FilterExact ==
    (Filtered /\ IsPair) =>
        /\ \A i \in DOMAIN df.rows :
              (i \in KeptIdx) <=>
                 /\ df.rows[i].location \in selected_countries
                 /\ df.rows[i].date # NaT
                 /\ date_range[1].day <= df.rows[i].date
                 /\ df.rows[i].date <= date_range[2].day
        /\ \A j \in DOMAIN data :
              /\ data[j].idx \in DOMAIN df.rows
              /\ data[j] = df.rows[data[j].idx]
        /\ Cardinality(KeptIdx) = Len(data)

\* a row dated exactly end is kept, a row dated exactly start is kept, and
\* with another interval a row of the same frame is left out
C1_Witness ==
    /\ pc = "charts"
    /\ IsPair
    /\ date_range[1].day < date_range[2].day
    /\ Len(df.rows) > Len(data)
    /\ \E j \in DOMAIN data : data[j].date = date_range[2].day

\* C2: the failure of a read never escapes load_data.
C2_LoaderNeverRaises == ~(pc = "crashed" /\ exc = "load_data")

\* C3: the steps from the sidebar on run only with a df that holds exactly
\* the four expected columns; a pass whose load failed has produced nothing.
C3_FourColumnsAtFilter ==
    /\ (pc \in {"sidebar", "filter", "charts", "map", "export", "done"} \/ Filtered
        \/ rendered \cap Views # {})
          => /\ df.columns = expected
             /\ \A i \in DOMAIN df.rows : DOMAIN df.rows[i] = expected \cup {"idx"}
    /\ (pc = "crashed" /\ exc = "load_data")
          => /\ rendered = {} /\ data = <<>> /\ cumulative = {}
             /\ map_data = {} /\ csv = <<>>
    /\ (pc = "stopped" /\ "error" \in rendered)
          => /\ rendered = {"error"} /\ data = <<>> /\ cumulative = {}
             /\ map_data = {} /\ csv = <<>>

C3_Witness ==
    /\ pc = "filter"
    /\ df.columns = expected
    /\ Len(df.rows) > 0

\* C4: a pass whose data has no row shows the warning and stops; the table,
\* the charts, the aggregations, the map and the export run only on a
\* non-empty data.
C4_EmptyStops ==
    /\ (Filtered /\ Len(data) = 0)
          => /\ pc = "stopped"
             /\ rendered = {"warning"}
             /\ cumulative = {} /\ map_data = {} /\ csv = <<>>
    /\ (rendered \cap Views # {} \/ cumulative # {} \/ map_data # {} \/ csv # <<>>)
          => Len(data) > 0

\* an empty selection over a frame that has rows
C4_Witness ==
    /\ pc = "stopped"
    /\ "warning" \in rendered
    /\ selected_countries = {}
    /\ all_countries(df.rows) # {}
    /\ IsPair

\* every location selected, the interval from the minimum to the maximum date
FullCriteria ==
    /\ IsPair
    /\ selected_countries = all_countries(df.rows)
    /\ date_range[1] = DateOf(SeriesMin(df.rows))
    /\ date_range[2] = DateOf(SeriesMax(df.rows))

\* C5 as stated: no row of data has both numeric fields null.
C5_Original ==
    Filtered =>
        \A j \in DOMAIN data :
            ~(data[j].new_deaths_smoothed = NaN /\ data[j].people_vaccinated_per_hundred = NaN)

\* C5 amended: the cleanup drops nothing from the masked rows; with every
\* location selected and the interval covering the full span, data is exactly
\* the rows of df with a parsed date and a location, the rows whose two
\* numeric fields are both null included.
C5_CleanupKeepsNullValueRows ==
    (Filtered /\ FullCriteria) =>
        /\ KeptIdx = {i \in DOMAIN df.rows :
                         df.rows[i].date # NaT /\ df.rows[i].location # NoLoc}
        /\ Len(data) = Cardinality(KeptIdx)

C5_Witness ==
    /\ Filtered
    /\ FullCriteria
    /\ \E j \in DOMAIN data :
          data[j].new_deaths_smoothed = NaN /\ data[j].people_vaccinated_per_hundred = NaN

\* rows of data in the group of loc with a value in col
NonNull(loc, col) == {j \in DOMAIN data : data[j].location = loc /\ data[j][col] # NaN}

RECURSIVE SumOver(_, _)
SumOver(J, col) ==
    IF J = {} THEN 0
    ELSE LET j == CHOOSE k \in J : TRUE
         IN data[j][col] + SumOver(J \ {j}, col)

Aggregated == pc \in {"map", "export", "done"} \/ (pc = "crashed" /\ exc = "requests.get")

\* C6 as stated: a group whose target values are all null never gets the
\* number zero, in none of the three aggregations.
C6_Original ==
    /\ Aggregated =>
          \A e \in cumulative :
              NonNull(e.location, "new_deaths_smoothed") = {} => e.value # 0
    /\ (Aggregated /\ show_map) =>
          \A e \in map_data :
              LET col == IF map_type = "Deaths Intensity" THEN "new_deaths_smoothed"
                         ELSE "people_vaccinated_per_hundred"
              IN NonNull(e.location, col) = {} => e.value # 0

\* C6 amended: nulls are left out of all three reductions; a group whose
\* target values are all null gets NaN from mean and from max, and the number
\* zero from sum.
C6_NullsSkipped ==
    /\ Aggregated =>
          /\ {e.location : e \in cumulative} = {data[j].location : j \in DOMAIN data}
          /\ \A e \in cumulative :
                e.value = SumOver(NonNull(e.location, "new_deaths_smoothed"), "new_deaths_smoothed")
    /\ (Aggregated /\ show_map /\ map_type = "Deaths Intensity") =>
          \A e \in map_data :
              LET J == NonNull(e.location, "new_deaths_smoothed")
              IN IF J = {} THEN e.value = NaN
                 ELSE e.value * Cardinality(J) = SumOver(J, "new_deaths_smoothed")
    /\ (Aggregated /\ show_map /\ map_type = "Vaccination Progress") =>
          \A e \in map_data :
              LET J == NonNull(e.location, "people_vaccinated_per_hundred")
              IN IF J = {} THEN e.value = NaN
                 ELSE /\ \E j \in J : e.value = data[j].people_vaccinated_per_hundred
                      /\ \A j \in J : e.value >= data[j].people_vaccinated_per_hundred

\* an all-null group summed to zero and averaged to NaN in the same pass
C6_Witness ==
    /\ Aggregated
    /\ show_map
    /\ map_type = "Deaths Intensity"
    /\ \E e \in cumulative, m \in map_data :
          /\ e.location = m.location
          /\ NonNull(e.location, "new_deaths_smoothed") = {}
          /\ e.value = 0
          /\ m.value = NaN

\* C7: a pass that ends with the map enabled and the GeoJSON fetch failed has
\* produced the table, the charts and the CSV export of data.
C7_MapFailureConfined ==
    (pc \in {"done", "crashed"} /\ show_map /\ geo = "failed") =>
        /\ {"table", "line_deaths", "line_vax", "scatter", "bar_chart", "heatmap",
            "download_button"} \subseteq rendered
        /\ csv = to_csv(data)

\* C8: a row of df with a missing date is in no data, whatever the selection
\* and the date range.
C8_NullDateExcluded ==
    Filtered =>
        /\ \A i \in DOMAIN df.rows : df.rows[i].date = NaT => i \notin KeptIdx
        /\ \A j \in DOMAIN data : data[j].date # NaT

\* the loader kept a row with a missing date, its location is selected, the
\* interval runs from the minimum to the maximum date, and data has rows
C8_Witness ==
    /\ pc = "charts"
    /\ FullCriteria
    /\ \E i \in DOMAIN df.rows :
          df.rows[i].date = NaT /\ df.rows[i].location \in selected_countries

\* index labels strictly increase along data
InOrder(d) == \A j, k \in DOMAIN d : j < k => d[j].idx < d[k].idx

\* C9: the filter step leaves df as it is and yields rows of df in the
\* relative order they have in df.
C9_OrderKeptDfUntouched ==
    [][pc = "filter" =>
          /\ df' = df
          /\ InOrder(data')
          /\ \A j \in DOMAIN data' :
                /\ data'[j].idx \in DOMAIN df.rows
                /\ data'[j] = df.rows[data'[j].idx]]_vars

\* two rows kept, the later one sorting before the earlier one by location
\* and by date
C9_Witness ==
    /\ pc = "charts"
    /\ Len(data) = 2
    /\ data[1].idx < data[2].idx
    /\ data[1].location = "B" /\ data[2].location = "A"
    /\ data[1].date > data[2].date

\* C10: when the filter step runs, start and end are single dates, and the
\* comparison of line 53 goes through; with a value that is not a pair,
\* start equals end and data is the selected rows of that day.
C10_StartEndSingleDates ==
    /\ pc = "filter" => (start.kind = "Timestamp" /\ end.kind = "Timestamp")
    /\ ~(pc = "crashed" /\ exc = "mask")
    /\ (Filtered /\ Len(date_range) = 1) =>
          /\ start = end
          /\ KeptIdx = {i \in DOMAIN df.rows :
                           /\ df.rows[i].location \in selected_countries
                           /\ df.rows[i].date # NaT
                           /\ df.rows[i].date = ToTimestamp(date_range[1])}
====
